---- MODULE Spec2Model ----
(***************************************************************************)
(* Model of src/augment/types/relationship/mutation.js: the pass that      *)
(* augments the Mutation operation type and the generated-type map with    *)
(* the 'Add' and 'Remove' relationship mutations of one relationship       *)
(* field.                                                                  *)
(*                                                                         *)
(* JavaScript strings are sequences of one-character strings, so that the  *)
(* template literals (concatenation) and the capitalisation of the first   *)
(* character of fieldName are computed as the code computes them.          *)
(* AST nodes are records.  An optional value (the result of Array.find)    *)
(* is a sequence of length 0 or 1.                                         *)
(***************************************************************************)
EXTENDS Naturals, Sequences, FiniteSets

VARIABLES
  typeDefinitionMap,   \* the user's type registry, as returned by the last call
  generatedTypeMap,    \* generated type name -> definition, as returned
  operationTypeMap,    \* operation kind -> object type definition, as returned
  config,              \* the schema build's configuration
  invocation,          \* the arguments and the outcome of the latest invocation
  nCalls               \* the number of invocations made so far

vars == <<typeDefinitionMap, generatedTypeMap, operationTypeMap, config,
          invocation, nCalls>>

\* The number of invocations of augmentRelationshipMutationAPI in one run.
MaxCalls == 2

----------------------------------------------------------------------------
\* Strings used by the code

Str_Add == <<"A", "d", "d">>
Str_Remove == <<"R", "e", "m", "o", "v", "e">>
Str_from == <<"f", "r", "o", "m">>
Str_to == <<"t", "o">>
Str_data == <<"d", "a", "t", "a">>
Str_Input == <<"I", "n", "p", "u", "t">>
Str_Payload == <<"P", "a", "y", "l", "o", "a", "d">>
Str_Create == <<"C", "r", "e", "a", "t", "e">>
Str_Delete == <<"D", "e", "l", "e", "t", "e">>
Str_Empty == <<>>

\* String.prototype.toUpperCase on a string of one character (one UTF-16 code
\* unit, as fieldName[0] is).  The result is a string, which may be longer than
\* one character.  The letters a..z and two letters outside ASCII are cased; the
\* characters of UpperCaseFixed have no upper case of their own.  No other
\* character is modelled.
UpperCaseOf ==
  [a |-> "A", b |-> "B", c |-> "C", d |-> "D", e |-> "E", f |-> "F", g |-> "G",
   h |-> "H", i |-> "I", j |-> "J", k |-> "K", l |-> "L", m |-> "M", n |-> "N",
   o |-> "O", p |-> "P", q |-> "Q", r |-> "R", s |-> "S", t |-> "T", u |-> "U",
   v |-> "V", w |-> "W", x |-> "X", y |-> "Y", z |-> "Z"]

UpperCaseFixed ==
  {"A", "B", "C", "D", "E", "F", "G", "H", "I", "J", "K", "L", "M", "N", "O", "P",
   "Q", "R", "S", "T", "U", "V", "W", "X", "Y", "Z", "0", "1", "2", "3", "4", "5",
   "6", "7", "8", "9", "_", "É"}

toUpperCase(ch) ==
  CASE ch \in DOMAIN UpperCaseOf -> <<UpperCaseOf[ch]>>
    [] ch = "é" -> <<"É">>
    [] ch = "ß" -> <<"S", "S">>
    [] ch \in UpperCaseFixed -> <<ch>>

\* The RelationshipMutation enum, in the order of Object.values
RelationshipMutation == [CREATE |-> Str_Add, DELETE |-> Str_Remove]

\* Variant for the sensitivity of C10: the actions in the opposite order.
RelationshipMutationValues_Reversed == <<RelationshipMutation.DELETE, RelationshipMutation.CREATE>>

RelationshipMutationValues == <<RelationshipMutation.CREATE, RelationshipMutation.DELETE>>

OperationType == [QUERY |-> "Query", MUTATION |-> "Mutation"]

\* String.prototype.toLowerCase on an operation type name
toLowerCase == [Query |-> "query", Mutation |-> "mutation"]

RelationshipDirectionField == [FROM |-> Str_from, TO |-> Str_to]

TypeWrappers == [NON_NULL_NAMED_TYPE |-> "isRequired", LIST_TYPE |-> "isList"]

DirectiveDefinition ==
  [CYPHER |-> "cypher", RELATION |-> "relation", MUTATION_META |-> "MutationMeta",
   HAS_SCOPE |-> "hasScope"]

----------------------------------------------------------------------------
\* The AST constructors of ../../ast

buildName(name) == [kind |-> "Name", value |-> name]

buildNamedType(name, wrappers) ==
  LET named == [kind |-> "NamedType", name |-> buildName(name)]
      inner == IF TypeWrappers.NON_NULL_NAMED_TYPE \in wrappers
               THEN [kind |-> "NonNullType", type |-> named]
               ELSE named
  IN IF TypeWrappers.LIST_TYPE \in wrappers
     THEN [kind |-> "ListType", type |-> inner]
     ELSE inner

buildInputValue(name, type) ==
  [kind |-> "InputValueDefinition", name |-> name, type |-> type]

buildField(name, type, args, directives) ==
  [kind |-> "FieldDefinition", name |-> name, type |-> type,
   arguments |-> args, directives |-> directives]

buildObjectType(name, fields, directives) ==
  [kind |-> "ObjectTypeDefinition", name |-> name, fields |-> fields,
   directives |-> directives]

buildInputObjectType(name, fields) ==
  [kind |-> "InputObjectTypeDefinition", name |-> name, fields |-> fields]

\* The directive helpers of ../../directives

buildDirective(name, args) ==
  [kind |-> "Directive", name |-> buildName(name), arguments |-> args]

buildMutationMetaDirective(relationshipName, fromType, toType) ==
  buildDirective(DirectiveDefinition.MUTATION_META,
                 [relationship |-> relationshipName, from |-> fromType, to |-> toType])

buildRelationDirective(relationshipName, fromType, toType) ==
  buildDirective(DirectiveDefinition.RELATION,
                 [name |-> relationshipName, from |-> fromType, to |-> toType])

buildAuthScopeDirective(scopes) ==
  buildDirective(DirectiveDefinition.HAS_SCOPE, [scopes |-> scopes])

getDirective(directives, name) ==
  SelectSeq(directives, LAMBDA dir : dir.name.value = name)

isCypherField(directives) ==
  getDirective(directives, DirectiveDefinition.CYPHER) # <<>>

useAuthDirective(cfg, name) == name \in cfg.auth

\* shouldAugmentRelationshipField of ../../augment
shouldAugmentRelationshipField(cfg, operationTypeNameLower, fromType, toType) ==
  /\ fromType \notin cfg[operationTypeNameLower].exclude
  /\ toType \notin cfg[operationTypeNameLower].exclude

\* getFieldDefinition of ../../fields
getFieldDefinition(fields, name) ==
  SelectSeq(fields, LAMBDA fld : fld.name.value = name)

\* buildNodeOutputFields of ./query
buildNodeOutputFields(fromType, toType) ==
  << buildField(buildName(RelationshipDirectionField.FROM),
                buildNamedType(fromType, {}), <<>>, <<>>),
     buildField(buildName(RelationshipDirectionField.TO),
                buildNamedType(toType, {}), <<>>, <<>>) >>

----------------------------------------------------------------------------
\* mutation.js

\* The template literal `_${name}${suffix}` of the generated type names
GeneratedName(name, suffix) == <<"_">> \o name \o suffix

\* Variant for the sensitivity of C8: the first character taken with charAt,
\* which does not throw on the empty string.
buildRelationshipMutationName_NoThrow(mutationAction, typeName, fieldName) ==
  [threw |-> FALSE,
   value |-> mutationAction \o typeName
               \o (IF Len(fieldName) = 0 THEN <<>> ELSE toUpperCase(fieldName[1]))
               \o SubSeq(fieldName, 2, Len(fieldName))]

\* fieldName[0].toUpperCase() throws a TypeError when fieldName is empty:
\* threw tells whether it did, value is the name otherwise.
buildRelationshipMutationName(mutationAction, typeName, fieldName) ==
  IF Len(fieldName) = 0
  THEN [threw |-> TRUE, value |-> Str_Empty]
  ELSE [threw |-> FALSE,
        value |-> mutationAction \o typeName
                    \o toUpperCase(fieldName[1]) \o SubSeq(fieldName, 2, Len(fieldName))]

buildNodeSelectionArguments(fromType, toType) ==
  << buildInputValue(buildName(RelationshipDirectionField.FROM),
                     buildNamedType(GeneratedName(fromType, Str_Input),
                                    {TypeWrappers.NON_NULL_NAMED_TYPE})),
     buildInputValue(buildName(RelationshipDirectionField.TO),
                     buildNamedType(GeneratedName(toType, Str_Input),
                                    {TypeWrappers.NON_NULL_NAMED_TYPE})) >>

buildRelationshipPropertyInputArgument(outputType) ==
  buildInputValue(buildName(Str_data),
                  buildNamedType(GeneratedName(outputType, Str_Input),
                                 {TypeWrappers.NON_NULL_NAMED_TYPE}))

\* Variant for the sensitivity of C2: the data argument whatever the action.
buildRelationshipMutationArguments_AnyAction(mutationAction, fromType, toType, propertyOutputFields, outputType) ==
  LET fieldArguments == buildNodeSelectionArguments(fromType, toType)
  IN IF Len(propertyOutputFields) # 0
     THEN Append(fieldArguments, buildRelationshipPropertyInputArgument(outputType))
     ELSE fieldArguments

buildRelationshipMutationArguments(mutationAction, fromType, toType, propertyOutputFields, outputType) ==
  LET fieldArguments == buildNodeSelectionArguments(fromType, toType)
  IN IF mutationAction = RelationshipMutation.CREATE /\ Len(propertyOutputFields) # 0
     THEN Append(fieldArguments, buildRelationshipPropertyInputArgument(outputType))
     ELSE fieldArguments

AuthActionOf(mutationAction) ==
  IF mutationAction = RelationshipMutation.CREATE THEN Str_Create
  ELSE IF mutationAction = RelationshipMutation.DELETE THEN Str_Delete
  ELSE Str_Empty

\* Variant for the sensitivity of C4: the authorization directive whatever the
\* configuration.
buildRelationshipMutationDirectives_AlwaysAuth(mutationAction, relationshipName, fromType, toType, cfg) ==
  LET authAction == AuthActionOf(mutationAction)
  IN << buildMutationMetaDirective(relationshipName, fromType, toType),
        buildAuthScopeDirective(
          << [typeName |-> fromType, mutation |-> authAction],
             [typeName |-> toType, mutation |-> authAction] >>) >>

buildRelationshipMutationDirectives(mutationAction, relationshipName, fromType, toType, cfg) ==
  LET mutationMetaDirective ==
        buildMutationMetaDirective(relationshipName, fromType, toType)
      directives == <<mutationMetaDirective>>
      authAction == AuthActionOf(mutationAction)
  IN IF useAuthDirective(cfg, DirectiveDefinition.HAS_SCOPE) /\ authAction # Str_Empty
     THEN Append(directives,
                 buildAuthScopeDirective(
                   << [typeName |-> fromType, mutation |-> authAction],
                      [typeName |-> toType, mutation |-> authAction] >>))
     ELSE directives

\* Pushes the field onto operationTypeMap.Mutation.fields, in place.
buildRelationshipMutationField(mutationAction, mutationName, relationshipName, fromType, toType, propertyOutputFields, mutationOutputType, outputType, opMap, cfg) ==
  IF mutationAction = RelationshipMutation.CREATE
       \/ mutationAction = RelationshipMutation.DELETE
  THEN [opMap EXCEPT ![OperationType.MUTATION].fields =
          Append(@,
            buildField(buildName(mutationName),
                       buildNamedType(mutationOutputType, {}),
                       buildRelationshipMutationArguments(
                         mutationAction, fromType, toType,
                         propertyOutputFields, outputType),
                       buildRelationshipMutationDirectives(
                         mutationAction, relationshipName, fromType, toType, cfg)))]
  ELSE opMap

\* generatedTypeMap[key] = value
SetEntry(map, key, value) ==
  [k \in DOMAIN map \cup {key} |-> IF k = key THEN value ELSE map[k]]

\* Variant for the sensitivity of C3: no property filtered out.
nonComputedPropertyInputFields_All(propertyInputValues) == propertyInputValues

nonComputedPropertyInputFields(propertyInputValues) ==
  SelectSeq(propertyInputValues,
            LAMBDA fld : getDirective(fld.directives, DirectiveDefinition.CYPHER) = <<>>)

\* Variant for the sensitivity of C7: the input type written for either action.
buildRelationshipMutationPropertyInputType_AnyAction(mutationAction, outputType, propertyInputValues, genMap) ==
  IF Len(propertyInputValues) # 0
  THEN LET kept == nonComputedPropertyInputFields(propertyInputValues)
           inputTypeName == GeneratedName(outputType, Str_Input)
       IN SetEntry(genMap, inputTypeName,
            buildInputObjectType(
              buildName(inputTypeName),
              [i \in 1..Len(kept) |->
                 buildInputValue(buildName(kept[i].name),
                                 buildNamedType(kept[i].type.name,
                                                kept[i].type.wrappers))]))
  ELSE genMap

buildRelationshipMutationPropertyInputType(mutationAction, outputType, propertyInputValues, genMap) ==
  IF mutationAction = RelationshipMutation.CREATE /\ Len(propertyInputValues) # 0
  THEN LET kept == nonComputedPropertyInputFields(propertyInputValues)
           inputTypeName == GeneratedName(outputType, Str_Input)
       IN SetEntry(genMap, inputTypeName,
            buildInputObjectType(
              buildName(inputTypeName),
              [i \in 1..Len(kept) |->
                 buildInputValue(buildName(kept[i].name),
                                 buildNamedType(kept[i].type.name,
                                                kept[i].type.wrappers))]))
  ELSE genMap

\* The CREATE payload's copy of a property field: a cypher field loses its arguments
mutationOutputField(fld) ==
  IF isCypherField(fld.directives) THEN [fld EXCEPT !.arguments = <<>>] ELSE fld

\* Variant for the sensitivity of C5: the relation directive with its endpoints
\* exchanged.
buildRelationshipMutationOutputType_Swapped(mutationAction, mutationOutputType, propertyOutputFields, relationshipName, fromType, toType, genMap) ==
  IF mutationAction = RelationshipMutation.CREATE
       \/ mutationAction = RelationshipMutation.DELETE
  THEN LET nodeFields == buildNodeOutputFields(fromType, toType)
           fields ==
             IF mutationAction = RelationshipMutation.CREATE
             THEN nodeFields \o [i \in 1..Len(propertyOutputFields) |->
                                   mutationOutputField(propertyOutputFields[i])]
             ELSE nodeFields
       IN SetEntry(genMap, mutationOutputType,
            buildObjectType(buildName(mutationOutputType), fields,
                            <<buildRelationDirective(relationshipName, toType, fromType)>>))
  ELSE genMap

buildRelationshipMutationOutputType(mutationAction, mutationOutputType, propertyOutputFields, relationshipName, fromType, toType, genMap) ==
  IF mutationAction = RelationshipMutation.CREATE
       \/ mutationAction = RelationshipMutation.DELETE
  THEN LET relationTypeDirective ==
             buildRelationDirective(relationshipName, fromType, toType)
           nodeFields == buildNodeOutputFields(fromType, toType)
           fields ==
             IF mutationAction = RelationshipMutation.CREATE
             THEN nodeFields \o [i \in 1..Len(propertyOutputFields) |->
                                   mutationOutputField(propertyOutputFields[i])]
             ELSE nodeFields
       IN SetEntry(genMap, mutationOutputType,
            buildObjectType(buildName(mutationOutputType), fields,
                            <<relationTypeDirective>>))
  ELSE genMap

\* Returns [operationTypeMap, generatedTypeMap]
buildRelationshipMutationAPI(mutationAction, mutationName, relationshipName, fromType, toType, propertyInputValues, propertyOutputFields, outputType, genMap, opMap, cfg) ==
  LET mutationOutputType == GeneratedName(mutationName, Str_Payload)
      opMap1 == buildRelationshipMutationField(
                  mutationAction, mutationName, relationshipName, fromType,
                  toType, propertyOutputFields, mutationOutputType, outputType,
                  opMap, cfg)
      genMap1 == buildRelationshipMutationPropertyInputType(
                   mutationAction, outputType, propertyInputValues, genMap)
      genMap2 == buildRelationshipMutationOutputType(
                   mutationAction, mutationOutputType, propertyOutputFields,
                   relationshipName, fromType, toType, genMap1)
  IN [operationTypeMap |-> opMap1, generatedTypeMap |-> genMap2]

\* Variant for the sensitivity of C1: no look-up of the name among the fields.
ForEachBody_NoGuard(st, mutationAction, d, cfg) ==
  IF st.threw THEN st
  ELSE
    LET mutationName ==
          buildRelationshipMutationName(mutationAction, d.typeName, d.fieldName)
    IN IF mutationName.threw THEN [st EXCEPT !.threw = TRUE]
       ELSE LET built == buildRelationshipMutationAPI(
                           mutationAction, mutationName.value, d.relationshipName,
                           d.fromType, d.toType, d.propertyInputValues,
                           d.propertyOutputFields, d.outputType,
                           st.generatedTypeMap, st.operationTypeMap, cfg)
            IN [st EXCEPT !.operationTypeMap = built.operationTypeMap,
                          !.generatedTypeMap = built.generatedTypeMap]

\* One iteration of the forEach over the mutation actions.  st holds the two
\* registries as mutated so far and whether an exception has been thrown; an
\* exception ends the loop and leaves the registries as they are at that point.
ForEachBody(st, mutationAction, d, cfg) ==
  IF st.threw THEN st
  ELSE
    LET mutationName ==
          buildRelationshipMutationName(mutationAction, d.typeName, d.fieldName)
    IN IF mutationName.threw THEN [st EXCEPT !.threw = TRUE]
       ELSE IF getFieldDefinition(
                 st.operationTypeMap[OperationType.MUTATION].fields,
                 mutationName.value) # <<>>
       THEN st
       ELSE LET built == buildRelationshipMutationAPI(
                           mutationAction, mutationName.value, d.relationshipName,
                           d.fromType, d.toType, d.propertyInputValues,
                           d.propertyOutputFields, d.outputType,
                           st.generatedTypeMap, st.operationTypeMap, cfg)
            IN [st EXCEPT !.operationTypeMap = built.operationTypeMap,
                          !.generatedTypeMap = built.generatedTypeMap]

RECURSIVE ForEach(_, _, _, _)
ForEach(st, actions, d, cfg) ==
  IF actions = <<>> THEN st
  ELSE ForEach(ForEachBody(st, Head(actions), d, cfg), Tail(actions), d, cfg)

\* Variant for the sensitivity of C6: the applicability predicate not asked.
augmentRelationshipMutationAPI_NoPredicate(d, tdMap, genMap, opMap, cfg) ==
  LET st0 == [typeDefinitionMap |-> tdMap, generatedTypeMap |-> genMap,
              operationTypeMap |-> opMap, threw |-> FALSE]
  IN IF OperationType.MUTATION \in DOMAIN opMap
     THEN ForEach(st0, RelationshipMutationValues, d, cfg)
     ELSE st0

\* The registries after the call and whether it threw, for descriptor d
augmentRelationshipMutationAPI(d, tdMap, genMap, opMap, cfg) ==
  LET mutationTypeName == OperationType.MUTATION
      mutationTypeNameLower == toLowerCase[mutationTypeName]
      st0 == [typeDefinitionMap |-> tdMap, generatedTypeMap |-> genMap,
              operationTypeMap |-> opMap, threw |-> FALSE]
  IN IF /\ mutationTypeName \in DOMAIN opMap
        /\ shouldAugmentRelationshipField(cfg, mutationTypeNameLower, d.fromType, d.toType)
     THEN ForEach(st0, RelationshipMutationValues, d, cfg)
     ELSE st0

----------------------------------------------------------------------------
\* The schemas and the descriptors the invocations are drawn from

Str_P == <<"P">>
Str_M == <<"M">>
Str_PS == <<"P", "S">>
Str_sa == <<"s", "a">>
Str_eszett_a == <<"ß", "a">>
Str_Kn == <<"K", "n">>
Str_Li == <<"L", "i">>
Str_KNOWS == <<"K", "N", "O", "W", "S">>
Str_LIKES == <<"L", "I", "K", "E", "S">>
Str_since == <<"s", "i", "n", "c", "e">>
Str_score == <<"s", "c", "o", "r", "e">>
Str_weight == <<"w", "e", "i", "g", "h", "t">>
Str_first == <<"f", "i", "r", "s", "t">>
Str_Int == <<"I", "n", "t">>
Str_Float == <<"F", "l", "o", "a", "t">>
Str_Mutation == <<"M", "u", "t", "a", "t", "i", "o", "n">>
Str_Query == <<"Q", "u", "e", "r", "y">>
Str_Boolean == <<"B", "o", "o", "l", "e", "a", "n">>

TypeNames == {Str_P, Str_PS}

\* with the empty field name, and two names that collide through the upper
\* case of the first letter, which is two characters for the second: P + ßa
\* and PS + sa both give PSSa
FieldNames == {Str_Empty, Str_sa, Str_eszett_a}

\* A relationship type with its relation directive's name and endpoints
RelationshipTypes ==
  { [outputType |-> Str_Kn, relationshipName |-> Str_KNOWS, fromType |-> Str_P, toType |-> Str_M],
    [outputType |-> Str_Li, relationshipName |-> Str_LIKES, fromType |-> Str_M, toType |-> Str_P] }

CypherDirective == buildDirective(DirectiveDefinition.CYPHER, [statement |-> Str_score])

\* Property input values, as the relationship type pass hands them over
SinceInput ==
  [name |-> Str_since,
   type |-> [name |-> Str_Int, wrappers |-> {TypeWrappers.NON_NULL_NAMED_TYPE}],
   directives |-> <<>>]

WeightInput ==
  [name |-> Str_weight, type |-> [name |-> Str_Float, wrappers |-> {}], directives |-> <<>>]

ScoreInput ==
  [name |-> Str_score, type |-> [name |-> Str_Float, wrappers |-> {}],
   directives |-> <<CypherDirective>>]

\* Property output fields
SinceField ==
  buildField(buildName(Str_since),
             buildNamedType(Str_Int, {TypeWrappers.NON_NULL_NAMED_TYPE}), <<>>, <<>>)

WeightField ==
  buildField(buildName(Str_weight), buildNamedType(Str_Float, {}), <<>>, <<>>)

ScoreField ==
  buildField(buildName(Str_score), buildNamedType(Str_Float, {}),
             <<buildInputValue(buildName(Str_first), buildNamedType(Str_Int, {}))>>,
             <<CypherDirective>>)

\* propertyInputValues and propertyOutputFields are two parameters of the call,
\* each defaulting to []
PropertyLists ==
  { [propertyInputValues |-> <<>>, propertyOutputFields |-> <<>>],
    [propertyInputValues |-> <<SinceInput>>, propertyOutputFields |-> <<SinceField>>],
    [propertyInputValues |-> <<SinceInput, ScoreInput>>,
     propertyOutputFields |-> <<SinceField, ScoreField>>],
    [propertyInputValues |-> <<WeightInput>>, propertyOutputFields |-> <<WeightField>>],
    [propertyInputValues |-> <<>>, propertyOutputFields |-> <<SinceField>>] }

Descriptors ==
  { [typeName |-> tn, fieldName |-> fn, outputType |-> rt.outputType,
     fromType |-> rt.fromType, toType |-> rt.toType,
     relationshipName |-> rt.relationshipName,
     propertyInputValues |-> pl.propertyInputValues,
     propertyOutputFields |-> pl.propertyOutputFields] :
    tn \in TypeNames, fn \in FieldNames, rt \in RelationshipTypes, pl \in PropertyLists }

Configs ==
  { [auth |-> au, mutation |-> [exclude |-> ex]] :
    au \in {{}, {DirectiveDefinition.HAS_SCOPE}}, ex \in {{}, {Str_M}} }

QueryType == buildObjectType(buildName(Str_Query), <<>>, <<>>)

\* A Mutation field the user declared, named like a generated one
UserField ==
  buildField(buildName(Str_Add \o Str_PS \o <<"S", "a">>), buildNamedType(Str_Boolean, {}),
             <<>>, <<>>)

\* Schemas without a Mutation type, with an empty one, and with a user's field
InitialOperationTypeMaps ==
  { [Query |-> QueryType],
    [Query |-> QueryType, Mutation |-> buildObjectType(buildName(Str_Mutation), <<>>, <<>>)],
    [Query |-> QueryType,
     Mutation |-> buildObjectType(buildName(Str_Mutation), <<UserField>>, <<>>)] }

InitialTypeDefinitionMap ==
  [n \in {Str_P, Str_M, Str_Kn, Str_Li} |-> buildObjectType(buildName(n), <<>>, <<>>)]

EmptyMap == [n \in {} |-> n]

NoDescriptor ==
  [typeName |-> Str_Empty, fieldName |-> Str_Empty, outputType |-> Str_Empty,
   fromType |-> Str_Empty, toType |-> Str_Empty, relationshipName |-> Str_Empty,
   propertyInputValues |-> <<>>, propertyOutputFields |-> <<>>]

----------------------------------------------------------------------------
\* The state machine: a schema build invokes the pass once per relationship field

Init ==
  /\ typeDefinitionMap = InitialTypeDefinitionMap
  /\ generatedTypeMap = EmptyMap
  /\ operationTypeMap \in InitialOperationTypeMaps
  /\ config \in Configs
  /\ nCalls = 0
  /\ invocation = [made |-> FALSE, threw |-> FALSE, d |-> NoDescriptor,
                   typeDefinitionMap |-> InitialTypeDefinitionMap,
                   generatedTypeMap |-> EmptyMap,
                   operationTypeMap |-> operationTypeMap]

\* One invocation of augmentRelationshipMutationAPI on the registries the
\* previous one returned (or left behind, when it threw).  invocation records
\* the arguments as they were passed.
Augment ==
  /\ nCalls < MaxCalls
  /\ \E d \in Descriptors :
       LET r == augmentRelationshipMutationAPI(d, typeDefinitionMap, generatedTypeMap,
                                               operationTypeMap, config)
       IN /\ typeDefinitionMap' = r.typeDefinitionMap
          /\ generatedTypeMap' = r.generatedTypeMap
          /\ operationTypeMap' = r.operationTypeMap
          /\ invocation' = [made |-> TRUE, threw |-> r.threw, d |-> d,
                            typeDefinitionMap |-> typeDefinitionMap,
                            generatedTypeMap |-> generatedTypeMap,
                            operationTypeMap |-> operationTypeMap]
  /\ nCalls' = nCalls + 1
  /\ UNCHANGED config

Next == Augment

Spec == Init /\ [][Next]_vars

----------------------------------------------------------------------------
\* Vocabulary of the properties

MutationFieldsOf(opMap) ==
  IF OperationType.MUTATION \in DOMAIN opMap
  THEN opMap[OperationType.MUTATION].fields
  ELSE <<>>

\* The Mutation field list as returned, and as passed to the latest invocation
MutationFields == MutationFieldsOf(operationTypeMap)

FieldsBefore == MutationFieldsOf(invocation.operationTypeMap)

\* The fields the latest invocation appended
Appended == SubSeq(MutationFields, Len(FieldsBefore) + 1, Len(MutationFields))

NamesOf(fields) == [i \in 1..Len(fields) |-> fields[i].name.value]

Occurrences(fields, name) == Cardinality({i \in 1..Len(fields) : fields[i].name.value = name})

IsPrefix(s, t) == Len(s) <= Len(t) /\ SubSeq(t, 1, Len(s)) = s

\* '<Action><TypeName><FieldName>' with the first letter of FieldName in upper case
ExpectedName(action, d) ==
  action \o d.typeName \o toUpperCase(Head(d.fieldName)) \o Tail(d.fieldName)

AddName(d) == ExpectedName(Str_Add, d)

RemoveName(d) == ExpectedName(Str_Remove, d)

InputTypeName(d) == <<"_">> \o d.outputType \o Str_Input

PayloadName(mutationName) == <<"_">> \o mutationName \o Str_Payload

NonNullNamed(name) ==
  [kind |-> "NonNullType",
   type |-> [kind |-> "NamedType", name |-> [kind |-> "Name", value |-> name]]]

\* The latest invocation found the Mutation root, and the applicability predicate true
RootAndApplicable ==
  /\ invocation.made
  /\ OperationType.MUTATION \in DOMAIN invocation.operationTypeMap
  /\ shouldAugmentRelationshipField(config, "mutation", invocation.d.fromType,
                                    invocation.d.toType)

\* ... and the field name is not empty, so that both actions are considered
Considered == RootAndApplicable /\ invocation.d.fieldName # Str_Empty

RegistriesUntouched ==
  /\ typeDefinitionMap = invocation.typeDefinitionMap
  /\ generatedTypeMap = invocation.generatedTypeMap
  /\ operationTypeMap = invocation.operationTypeMap

\* The latest invocation appended the field of the given name
AppendedNamed(name) == Occurrences(Appended, name) > 0

IsPayload(def) == def.kind = "ObjectTypeDefinition"

----------------------------------------------------------------------------
\* C1: the Mutation field list never holds two fields of the same name, and
\* after an invocation that considered both actions (Mutation root present,
\* predicate true, field name not empty) it holds exactly one field named
\* 'Add<TypeName><FieldName>' and exactly one named 'Remove<TypeName><FieldName>',
\* also when the names were there before (the descriptor repeated).
C1_UniqueFieldNames ==
  /\ \A i, j \in 1..Len(MutationFields) :
       i # j => MutationFields[i].name.value # MutationFields[j].name.value
  /\ Considered =>
       /\ ~invocation.threw
       /\ Occurrences(MutationFields, AddName(invocation.d)) = 1
       /\ Occurrences(MutationFields, RemoveName(invocation.d)) = 1

\* The descriptor of the latest invocation had generated both fields in an
\* earlier invocation, and the latest one added nothing.
C1_Witness ==
  /\ Considered
  /\ nCalls = 2
  /\ Appended = <<>>
  /\ RegistriesUntouched
  /\ Occurrences(FieldsBefore, AddName(invocation.d)) = 1
  /\ Occurrences(FieldsBefore, RemoveName(invocation.d)) = 1
  /\ PayloadName(AddName(invocation.d)) \in DOMAIN generatedTypeMap
  /\ PayloadName(RemoveName(invocation.d)) \in DOMAIN generatedTypeMap

\* C2: a field appended by an invocation is the descriptor's Add or Remove
\* field; the Remove field has the arguments from, to; the Add field has from,
\* to, data when propertyOutputFields is not empty and from, to otherwise; from
\* is typed _<fromType>Input!, to _<toType>Input!, data _<outputType>Input!.
C2_Arguments ==
  Considered =>
    \A i \in 1..Len(Appended) :
      LET f == Appended[i]
          d == invocation.d
          from == [kind |-> "InputValueDefinition",
                   name |-> [kind |-> "Name", value |-> Str_from],
                   type |-> NonNullNamed(<<"_">> \o d.fromType \o Str_Input)]
          to == [kind |-> "InputValueDefinition",
                 name |-> [kind |-> "Name", value |-> Str_to],
                 type |-> NonNullNamed(<<"_">> \o d.toType \o Str_Input)]
          data == [kind |-> "InputValueDefinition",
                   name |-> [kind |-> "Name", value |-> Str_data],
                   type |-> NonNullNamed(<<"_">> \o d.outputType \o Str_Input)]
      IN /\ f.name.value \in {AddName(d), RemoveName(d)}
         /\ f.name.value = RemoveName(d) => f.arguments = <<from, to>>
         /\ f.name.value = AddName(d) =>
              f.arguments = IF Len(d.propertyOutputFields) > 0
                            THEN <<from, to, data>>
                            ELSE <<from, to>>

\* Both fields appended for a relationship with properties: three arguments
\* on Add, two on Remove.
C2_Witness ==
  /\ Considered
  /\ Len(invocation.d.propertyOutputFields) > 0
  /\ Len(Appended) = 2
  /\ Len(Appended[1].arguments) = 3
  /\ Len(Appended[2].arguments) = 2

\* C3: when an invocation appends the Add field and the descriptor has property
\* input values, the type _<outputType>Input holds no field of a property that
\* carries the cypher directive and holds every other property with its name
\* and type; a cypher property among propertyOutputFields is a field of the
\* type _Add<TypeName><FieldName>Payload.
C3_ComputedProperties ==
  (Considered /\ AppendedNamed(AddName(invocation.d))) =>
    LET d == invocation.d
        HasCypher(dirs) == \E k \in 1..Len(dirs) : dirs[k].name.value = "cypher"
        payload == PayloadName(AddName(d))
    IN /\ Len(d.propertyInputValues) > 0 =>
            /\ InputTypeName(d) \in DOMAIN generatedTypeMap
            /\ LET fields == generatedTypeMap[InputTypeName(d)].fields
               IN \A k \in 1..Len(d.propertyInputValues) :
                    LET p == d.propertyInputValues[k]
                    IN IF HasCypher(p.directives)
                       THEN \A m \in 1..Len(fields) : fields[m].name.value # p.name
                       ELSE \E m \in 1..Len(fields) :
                              /\ fields[m].name.value = p.name
                              /\ fields[m].type = buildNamedType(p.type.name, p.type.wrappers)
       /\ payload \in DOMAIN generatedTypeMap
       /\ \A k \in 1..Len(d.propertyOutputFields) :
            HasCypher(d.propertyOutputFields[k].directives) =>
              \E m \in 1..Len(generatedTypeMap[payload].fields) :
                generatedTypeMap[payload].fields[m].name.value
                  = d.propertyOutputFields[k].name.value

\* The Add field was appended for a relationship with a stored and a computed
\* property: the input type holds the stored one only, the payload both.
C3_Witness ==
  /\ Considered
  /\ AppendedNamed(AddName(invocation.d))
  /\ invocation.d.propertyInputValues = <<SinceInput, ScoreInput>>
  /\ invocation.d.propertyOutputFields = <<SinceField, ScoreField>>
  /\ NamesOf(generatedTypeMap[InputTypeName(invocation.d)].fields) = <<Str_since>>
  /\ NamesOf(generatedTypeMap[PayloadName(AddName(invocation.d))].fields)
       = <<Str_from, Str_to, Str_since, Str_score>>

\* C4: every field an invocation appends has the MutationMeta directive of
\* (relationshipName, fromType, toType) first; without hasScope authorization in
\* the configuration that is its only directive; with it, the Add field has
\* exactly one more, hasScope with (fromType, Create), (toType, Create), and the
\* Remove field hasScope with (fromType, Delete), (toType, Delete).
C4_Directives ==
  Considered =>
    \A i \in 1..Len(Appended) :
      LET f == Appended[i]
          d == invocation.d
          meta == [kind |-> "Directive",
                   name |-> [kind |-> "Name", value |-> "MutationMeta"],
                   arguments |-> [relationship |-> d.relationshipName,
                                  from |-> d.fromType, to |-> d.toType]]
          verb == IF f.name.value = AddName(d) THEN Str_Create ELSE Str_Delete
          scope == [kind |-> "Directive",
                    name |-> [kind |-> "Name", value |-> "hasScope"],
                    arguments |->
                      [scopes |-> << [typeName |-> d.fromType, mutation |-> verb],
                                     [typeName |-> d.toType, mutation |-> verb] >>]]
      IN /\ Len(f.directives) >= 1
         /\ f.directives[1] = meta
         /\ f.directives = IF "hasScope" \in config.auth THEN <<meta, scope>> ELSE <<meta>>

\* With authorization enabled both fields were appended, each with two
\* directives.
C4_Witness ==
  /\ Considered
  /\ "hasScope" \in config.auth
  /\ Len(Appended) = 2
  /\ Len(Appended[1].directives) = 2
  /\ Len(Appended[2].directives) = 2

\* C5: every payload type of the generated-type map has exactly one directive,
\* the relation directive, and a Mutation field of the payload's mutation name
\* exists whose MutationMeta directive binds the same triple; for a field the
\* latest invocation appended the triple is that of its descriptor.
C5_PayloadDirective ==
  \A n \in DOMAIN generatedTypeMap :
    IsPayload(generatedTypeMap[n]) =>
      LET def == generatedTypeMap[n]
      IN /\ Len(def.directives) = 1
         /\ def.directives[1].name.value = "relation"
         /\ \E i \in 1..Len(MutationFields) :
              LET f == MutationFields[i]
              IN /\ n = PayloadName(f.name.value)
                 /\ f.directives[1].arguments.relationship = def.directives[1].arguments.name
                 /\ f.directives[1].arguments.from = def.directives[1].arguments.from
                 /\ f.directives[1].arguments.to = def.directives[1].arguments.to
                 /\ i > Len(FieldsBefore) =>
                      def.directives[1].arguments
                        = [name |-> invocation.d.relationshipName,
                           from |-> invocation.d.fromType,
                           to |-> invocation.d.toType]

\* A later invocation whose names collide with those of an earlier descriptor
\* of another relationship: the payload keeps the triple of the descriptor
\* that appended the field.
C5_Witness ==
  /\ Considered
  /\ nCalls = 2
  /\ Appended = <<>>
  /\ PayloadName(AddName(invocation.d)) \in DOMAIN generatedTypeMap
  /\ generatedTypeMap[PayloadName(AddName(invocation.d))].directives[1].arguments.name
       # invocation.d.relationshipName

\* C6: an invocation that finds no Mutation entry in the operation-type map, or
\* the applicability predicate false, returns normally and leaves the three
\* registries as they were passed.
C6_NoOp ==
  (invocation.made /\ ~RootAndApplicable) => (~invocation.threw /\ RegistriesUntouched)

\* The predicate was false for a descriptor with the empty field name, on a
\* schema with a Mutation root.
C6_Witness ==
  /\ invocation.made
  /\ OperationType.MUTATION \in DOMAIN invocation.operationTypeMap
  /\ ~RootAndApplicable
  /\ invocation.d.fieldName = Str_Empty
  /\ nCalls = 2

\* C7 as stated: no invocation replaces the definition stored under a name of
\* the generated-type map by a different one.
C7_WriteOnce ==
  invocation.made =>
    \A n \in DOMAIN invocation.generatedTypeMap :
      n \in DOMAIN generatedTypeMap /\ generatedTypeMap[n] = invocation.generatedTypeMap[n]

\* C7 amended: an invocation removes no entry and changes no payload type; the
\* one entry it may replace is _<outputType>Input of its descriptor, when it
\* appends the Add field and propertyInputValues is not empty, and that entry
\* then holds the descriptor's non-computed property inputs.
C7_WriteOncePayloads ==
  invocation.made =>
    \A n \in DOMAIN invocation.generatedTypeMap :
      /\ n \in DOMAIN generatedTypeMap
      /\ IF /\ Considered
            /\ AppendedNamed(AddName(invocation.d))
            /\ Len(invocation.d.propertyInputValues) > 0
            /\ n = InputTypeName(invocation.d)
         THEN LET kept == SelectSeq(invocation.d.propertyInputValues,
                                    LAMBDA p : \A k \in 1..Len(p.directives) :
                                                 p.directives[k].name.value # "cypher")
              IN /\ ~IsPayload(invocation.generatedTypeMap[n])
                 /\ generatedTypeMap[n].kind = "InputObjectTypeDefinition"
                 /\ generatedTypeMap[n].name.value = n
                 /\ generatedTypeMap[n].fields
                      = [k \in 1..Len(kept) |->
                           [kind |-> "InputValueDefinition",
                            name |-> [kind |-> "Name", value |-> kept[k].name],
                            type |-> buildNamedType(kept[k].type.name,
                                                    kept[k].type.wrappers)]]
         ELSE generatedTypeMap[n] = invocation.generatedTypeMap[n]

\* An invocation replaced an input type by a different definition.
C7_Witness ==
  /\ Considered
  /\ InputTypeName(invocation.d) \in DOMAIN invocation.generatedTypeMap
  /\ generatedTypeMap[InputTypeName(invocation.d)]
       # invocation.generatedTypeMap[InputTypeName(invocation.d)]

\* C8: with the Mutation root present and the predicate true, an invocation
\* with the empty field name throws, and the three registries are as passed.
C8_EmptyFieldName ==
  (RootAndApplicable /\ invocation.d.fieldName = Str_Empty) =>
    (invocation.threw /\ RegistriesUntouched)

\* The invocation threw, on registries an earlier invocation had filled.
C8_Witness ==
  /\ RootAndApplicable
  /\ invocation.d.fieldName = Str_Empty
  /\ invocation.threw
  /\ Len(MutationFields) >= 2

\* C9 as stated: the type of every data argument of a Mutation field is defined
\* in the generated-type map.
C9_DataTypeDefined ==
  \A i \in 1..Len(MutationFields) :
    \A k \in 1..Len(MutationFields[i].arguments) :
      LET arg == MutationFields[i].arguments[k]
      IN arg.name.value = Str_data => arg.type.type.name.value \in DOMAIN generatedTypeMap

\* C10: an invocation only appends to the Mutation field list: the list passed
\* is a prefix of the list returned, at most two fields are added, Add before
\* Remove, and a name that is absent is added although the other is present.
C10_AppendOnly ==
  invocation.made =>
    /\ IsPrefix(FieldsBefore, MutationFields)
    /\ Len(Appended) <= 2
    /\ Considered =>
         LET add == AddName(invocation.d)
             remove == RemoveName(invocation.d)
             missing(name) == Occurrences(FieldsBefore, name) = 0
         IN NamesOf(Appended)
              = (IF missing(add) THEN <<add>> ELSE <<>>)
                  \o (IF missing(remove) THEN <<remove>> ELSE <<>>)
    /\ ~Considered => Appended = <<>>

\* The Add name was a field already and the Remove name was not: the Remove
\* field alone was appended, after the fields that were there.
C10_Witness ==
  /\ Considered
  /\ Occurrences(FieldsBefore, AddName(invocation.d)) = 1
  /\ Occurrences(FieldsBefore, RemoveName(invocation.d)) = 0
  /\ NamesOf(Appended) = <<RemoveName(invocation.d)>>
  /\ Len(FieldsBefore) >= 3

====
